---- MODULE Spec2Model ----
(***************************************************************************)
(* The plugin sandbox runtime of the launcher: the Plugin Store (loader.rs), *)
(* the Execution Runtime (runtime.rs), the Capability Host (host_api.rs),   *)
(* the plugin search provider (providers/plugins.rs), the command registry  *)
(* (commands/mod.rs) and the Tauri commands and startup thread of lib.rs    *)
(* that drive them.                                                         *)
(***************************************************************************)
EXTENDS Integers, Sequences, FiniteSets, TLC

(***************************************************************************)
(* Bounds of the model.                                                     *)
(***************************************************************************)
\* Commands the command threads issue in one behaviour.
MaxCmds == 2
\* Capability Host operations issued in one behaviour.
MaxCalls == 3
\* Commands issued in a serial run.
MaxSerial == 3
\* Entries of a manifest's permissions array.
MaxPerms == 2

(***************************************************************************)
(* Fixtures: the plugin directories that can sit under the plugins root,    *)
(* their manifests and the exports of their guest modules.                  *)
(***************************************************************************)
Ids == {"p1", "p2"}
Dirs == {"d0", "d1", "d2", "d3"}
NoDir == "nodir"
\* Directories under the plugins root when the process starts.
InitialDisk == {"d1", "d2"}
\* The plugins roots a serial run can start from: "d3" next to or instead of
\* "d1".
SerialDisks ==
    {{"d1", "d2"}, {"d2", "d3"}, {"d0", "d1", "d2"}, {"d0", "d1", "d2", "d3"}}

\* manifest.json of a directory: its id ("d3" carries the same id as "d1").
ManifestId(d) == IF d = "d2" THEN "p2" ELSE "p1"
\* The guest exports of the module a directory's entry file holds.
ModuleExports(d) ==
    CASE d = "d1" -> {"init", "search", "execute_ai_tool", "shutdown"}
      [] d = "d2" -> {"search"}
      [] OTHER    -> {"init", "shutdown"}
\* provides.commands of the directory's manifest, as triggers.
ManifestCommands(d) ==
    CASE d = "d1" -> {"git"}
      [] d = "d2" -> {}
      [] OTHER    -> {"git", "jira"}

Startup == "startup"
CmdThreads == {"t1", "t2"}
Threads == {Startup} \cup CmdThreads
Free == "free"

VARIABLES
    disk,       \* directories present under the plugins root
    plugins,    \* PluginLoader.plugins: id -> [path, enabled]
    instances,  \* PluginRuntime.instances: id -> the PluginInstance it owns
    dropped,    \* what became of the instances that were destroyed
    instLock,   \* holder of the write side of PluginRuntime.instances' RwLock
    registry,   \* CommandRegistry.commands of plugin source: <<plugin id, trigger>>
    perms,      \* DefaultHostApi.plugin_permissions: id -> FsSandbox or NoPerms
    pc,         \* position of each thread
    cmd,        \* the command a thread runs, or ran last
    loc,        \* the locals of each thread
    ret,        \* result of the last finished command
    ncmds,      \* commands issued so far
    fsDirs,     \* the directories of the filesystem, as physical paths
    fsFiles,    \* the regular files of the filesystem: physical path -> content
    hpc,        \* position of each caller of the Capability Host
    hloc,       \* the arguments and locals of its read_file / write_file call
    hret,       \* the result of the call
    ncalls,     \* Capability Host operations issued so far
    sched,      \* how the frontend invokes commands: "concurrent" or "serial"
    cfgFiles,   \* the files of config_dir: physical path -> JSON text
    svc,        \* the last config / HTTP / OAuth call of the Capability Host
    mf          \* the last manifest document parsed or written

rtVars == <<disk, plugins, instances, dropped, instLock, registry, pc, cmd, loc,
            ret, ncmds>>
hostVars == <<perms, fsDirs, fsFiles, hpc, hloc, hret, ncalls>>
svcVars == <<cfgFiles, svc>>
vars == <<rtVars, hostVars, sched, svcVars, mf>>

\* A PluginInstance is a value owned by the table or by a local of a thread;
\* NoInstance is the absent one (None, or a moved-from local).
NoInstance ==
    [pid |-> "", module |-> NoDir, gen |-> 0, alive |-> FALSE, inits |-> 0,
     initFailed |-> FALSE, shutdowns |-> 0]

Absent == [path |-> NoDir, enabled |-> FALSE]
NoPerms == [registered |-> FALSE, can_read |-> FALSE, can_write |-> FALSE, data_dir |-> <<>>]

\* id: the plugin id argument or loop variable; snap: the LoadedPlugin clone
\* get_plugin returned; mine: the instance held in a local; todo: directory
\* entries a running scan has not visited; found: loaded_ids of the scan;
\* pending: ids the search provider still has to visit; called: ids whose
\* search export the search invoked; results: ids that contributed results;
\* last: what the last call_search returned to the provider.
NoLocals ==
    [id |-> "p1", snap |-> Absent, mine |-> NoInstance, todo |-> {}, found |-> <<>>,
     pending |-> {}, called |-> {}, results |-> {}, last |-> "none", out |-> "none"]

(***************************************************************************)
(* Manifests: PluginManifest and its JSON form (plugins/manifest.rs).       *)
(***************************************************************************)
\* A JSON value of a permissions array: a string, or an object of one member.
JString(s) == [kind |-> "string", key |-> s, val |-> ""]
JObject(k, v) == [kind |-> "object", key |-> k, val |-> v]

\* A member of a JSON object, which may be left out of the document.
Member(present, items) == [present |-> present, items |-> items]

\* The values of PluginPermission, and the value standing for a
\* deserialisation error.
Permissions ==
    {<<"network">>, <<"filesystem", "read">>, <<"filesystem", "write">>,
     <<"clipboard">>, <<"notifications">>, <<"oauth", "github">>}
Invalid == <<"invalid">>

\* The derived Deserialize of PluginPermission: a unit variant is its name
\* as a string, the newtype variant OAuth an object {"oauth": provider}.
deserialize_permission(j) ==
    IF j.kind = "string"
    THEN CASE j.key = "network"          -> <<"network">>
           [] j.key = "filesystem:read"  -> <<"filesystem", "read">>
           [] j.key = "filesystem:write" -> <<"filesystem", "write">>
           [] j.key = "clipboard"        -> <<"clipboard">>
           [] j.key = "notifications"    -> <<"notifications">>
           [] OTHER                      -> Invalid
    ELSE IF j.key = "oauth" THEN <<"oauth", j.val>> ELSE Invalid

\* A Serialize that writes OAuth(provider) as the string "oauth:<provider>".
serialize_permission_literal(p) ==
    CASE p = <<"network">>             -> JString("network")
      [] p = <<"filesystem", "read">>  -> JString("filesystem:read")
      [] p = <<"filesystem", "write">> -> JString("filesystem:write")
      [] p = <<"clipboard">>           -> JString("clipboard")
      [] p = <<"notifications">>       -> JString("notifications")
      [] p = <<"oauth", "github">>     -> JString("oauth:github")

\* The derived Serialize of PluginPermission.
serialize_permission(p) ==
    CASE p = <<"network">>             -> JString("network")
      [] p = <<"filesystem", "read">>  -> JString("filesystem:read")
      [] p = <<"filesystem", "write">> -> JString("filesystem:write")
      [] p = <<"clipboard">>           -> JString("clipboard")
      [] p = <<"notifications">>       -> JString("notifications")
      [] p[1] = "oauth"                -> JObject("oauth", p[2])

\* The sequences over S of length at most n.
SeqUpTo(S, n) == UNION {[1..k -> S] : k \in 0..n}

\* The manifests: their permissions, and of their provides listing the
\* providers (a Vec<String>, as actions and ai_tools) and the commands (a
\* Vec of structs with an optional field, as widgets).
Manifests ==
    [permissions : SeqUpTo(Permissions, MaxPerms),
     providers : SeqUpTo({"search"}, 1),
     commands : SeqUpTo([trigger : {"git"},
                         icon : {[some |-> FALSE, v |-> ""], [some |-> TRUE, v |-> "x"]}], 1)]

\* serde_json::to_string(&manifest): every field of provides is written;
\* the icon of a command is left out when it is None.
to_string(m) ==
    [permissions |-> [i \in DOMAIN m.permissions |-> serialize_permission(m.permissions[i])],
     providers |-> Member(TRUE, m.providers),
     commands |-> Member(TRUE, [i \in DOMAIN m.commands |->
                    [trigger |-> m.commands[i].trigger,
                     icon |-> IF m.commands[i].icon.some
                              THEN Member(TRUE, m.commands[i].icon.v)
                              ELSE Member(FALSE, "")]])]

\* The manifest.json documents plugins ship: permissions written as the
\* documented strings or as objects, with or without a provides listing.
ManifestDocs ==
    [permissions :
        SeqUpTo({JString(x) : x \in {"network", "filesystem:read", "filesystem:write",
                                    "clipboard", "notifications", "oauth:github",
                                    "camera"}}
                \cup {JObject("oauth", "github")}, MaxPerms),
     providers : {Member(FALSE, <<>>), Member(TRUE, <<"search">>)},
     commands : {Member(FALSE, <<>>)}]

NoManifest == [permissions |-> <<>>, providers |-> <<>>, commands |-> <<>>]

\* PluginManifest::from_file: serde_json::from_str of the document. It fails
\* when a permission is no variant; a missing list of provides is empty, a
\* missing icon None.
manifest_from_str(doc) ==
    LET perms_ == [i \in DOMAIN doc.permissions |->
                        deserialize_permission(doc.permissions[i])] IN
    IF \E i \in DOMAIN perms_ : perms_[i] = Invalid
    THEN [ok |-> FALSE, value |-> NoManifest]
    ELSE [ok |-> TRUE,
          value |->
            [permissions |-> perms_,
             providers |-> IF doc.providers.present THEN doc.providers.items ELSE <<>>,
             commands |->
                IF doc.commands.present
                THEN [i \in DOMAIN doc.commands.items |->
                        [trigger |-> doc.commands.items[i].trigger,
                         icon |-> IF doc.commands.items[i].icon.present
                                  THEN [some |-> TRUE, v |-> doc.commands.items[i].icon.items]
                                  ELSE [some |-> FALSE, v |-> ""]]]
                ELSE <<>>]]

InitTables ==
    /\ mf = [op |-> "none", doc |-> to_string(NoManifest), ok |-> TRUE,
             value |-> NoManifest]
    /\ plugins = [i \in Ids |-> Absent]
    /\ instances = [i \in Ids |-> NoInstance]
    /\ dropped = {}
    /\ instLock = Free
    /\ registry = {}
    /\ pc = [t \in Threads |-> IF t = Startup THEN "scan_begin" ELSE "idle"]
    /\ cmd = [t \in Threads |-> IF t = Startup THEN "startup" ELSE "none"]
    /\ loc = [t \in Threads |-> NoLocals]
    /\ ret = [t \in Threads |-> "none"]
    /\ ncmds = 0

\* The process starts with the commands of the frontend arriving on two
\* threads, concurrently with the loading thread.
InitRuntime ==
    /\ disk = InitialDisk
    /\ sched = "concurrent"
    /\ InitTables

\* The callers of the Capability Host (guest calls served on host threads).
HThreads == {"h1", "h2"}

\* The filesystem when the process starts: the plugin data root with the data
\* directory a plugin left behind (a file, a symlink to a directory outside
\* and a dangling symlink in it), a directory outside the sandbox, and the
\* config directory.
plugins_data_dir == <<"pd">>
config_dir == <<"cfg">>
InitialDirs == {<<>>, <<"pd">>, <<"pd", "p1">>, <<"out">>, <<"cfg">>}
InitialFiles == (<<"pd", "p1", "n">> :> "old") @@ (<<"out", "secret">> :> "key")
Symlinks == (<<"pd", "p1", "ln">> :> <<"out">>) @@ (<<"pd", "p1", "dg">> :> <<"out", "x">>)

\* A path string a guest passes: absolute or relative, and its components.
Rel(comps) == [abs |-> FALSE, comps |-> comps]
Abs(comps) == [abs |-> TRUE, comps |-> comps]
PathInputs ==
    { Rel(<<"n">>), Rel(<<"s">>), Rel(<<"s", "n">>), Rel(<<"..", "p2", "n">>),
      Rel(<<"..", "..", "out", "secret">>), Rel(<<"..", "s", "n">>),
      Rel(<<"..", "p1", "n">>), Rel(<<"ln", "secret">>), Rel(<<"dg">>),
      Rel(<<"s", "..">>), Rel(<<>>), Abs(<<"out", "secret">>), Abs(<<"pd", "p1", "n">>),
      Rel(<<"..", "p2", "s", "n">>) }

NoCall ==
    [op |-> "none", id |-> "p1", path |-> Rel(<<>>), resolved |-> <<>>, out |-> "",
     made |-> {}, hit |-> {}]

\* The permissions array of each plugin's manifest.
ManifestPermissions(id) ==
    CASE id = "p1" -> {<<"filesystem", "read">>, <<"oauth", "github">>}
      [] id = "p2" -> {<<"network">>}

\* A JSON document is the sequence of the members of its "values" object,
\* each a <<key, value>> pair; UnparsableText is a file that is not one.
ConfigKeys == {"k1", "k2"}
ConfigVals == {"a", "b"}
UnparsableText == << <<"{">> >>

\* PluginConfig.values: a set of <<key, value>> pairs, one per key.
Configs ==
    {c \in SUBSET (ConfigKeys \X ConfigVals) :
        \A e1 \in c, e2 \in c : e1[1] = e2[1] => e1 = e2}

\* PluginConfig::default()
DefaultConfig == {}

\* config_dir.join(format!("{}.json", plugin_id))
get_config_path(id) ==
    Append(config_dir, CASE id = "p1" -> "p1.json" [] id = "p2" -> "p2.json")

\* The config files when the process starts: p1 has none, the one p2 left
\* behind does not parse.
InitialConfigFiles == get_config_path("p2") :> UnparsableText

NoSvc ==
    [n |-> 0, op |-> "none", id |-> "p1", arg |-> "", env |-> "",
     config |-> DefaultConfig, res |-> "none"]

InitHost ==
    /\ cfgFiles = InitialConfigFiles
    /\ svc = NoSvc
    /\ perms = [i \in Ids |-> NoPerms]
    /\ fsDirs = InitialDirs
    /\ fsFiles = InitialFiles
    /\ hpc = [h \in HThreads |-> "idle"]
    /\ hloc = [h \in HThreads |-> NoCall]
    /\ hret = [h \in HThreads |-> "none"]
    /\ ncalls = 0

Init == InitRuntime /\ InitHost

(***************************************************************************)
(* Helpers on thread state.                                                 *)
(***************************************************************************)
\* What a thread keeps of its locals once its command has returned: the
\* argument and the value it returned.
Returned(l) == [NoLocals EXCEPT !.id = l.id, !.called = l.called, !.results = l.results]

\* The thread's command returns r.
Finish(t, r) ==
    /\ pc' = [pc EXCEPT ![t] = "done"]
    /\ ret' = [ret EXCEPT ![t] = r]

Goto(t, label) == pc' = [pc EXCEPT ![t] = label]

\* A command thread picks up its next command.
Dispatch(t, name) ==
    /\ t \in CmdThreads
    /\ pc[t] = "idle"
    /\ IF sched = "serial"
       THEN t = "t1" /\ pc[Startup] = "finished" /\ ncmds < MaxSerial
       ELSE ncmds < MaxCmds
    /\ ncmds' = ncmds + 1
    /\ cmd' = [cmd EXCEPT ![t] = name]

(***************************************************************************)
(* Plugin Store: PluginLoader (plugins/loader.rs).                          *)
(***************************************************************************)
\* manifest.json parses and the entry file it names is present ("d0" holds
\* a manifest that does not parse).
DirValid(d) == d \in Dirs \ {"d0"}

\* PluginLoader::load_plugin succeeds on this directory entry.
LoaderLoadOk(d) == d \in disk /\ DirValid(d)

\* The catalog after PluginLoader::load_plugin inserted the directory's plugin.
LoaderInsert(cat, d) == [cat EXCEPT ![ManifestId(d)] = [path |-> d, enabled |-> TRUE]]

\* PluginLoader::get_plugin
get_plugin(id) == plugins[id]

Catalogued(id) == plugins[id].path # NoDir

\* loaded_ids.push(id). Only the loading thread reads the list scan_plugins
\* returns (install_plugin discards it), so only there it is kept.
ScanPush(t, ids, id) == IF cmd[t] = "startup" THEN Append(ids, id) ELSE ids

\* PluginLoader::scan_plugins reads the directory listing.
scan_begin(t) ==
    /\ pc[t] = "scan_begin"
    /\ loc' = [loc EXCEPT ![t].todo = disk, ![t].found = <<>>]
    /\ Goto(t, "scan_entry")
    /\ UNCHANGED <<disk, plugins, instances, dropped, instLock, registry, cmd, ret, ncmds>>
    /\ UNCHANGED <<hostVars, sched, svcVars, mf>>

\* The scan given up at the first directory that fails to load.
RestAfterAbort(todo, d) == {}

\* The entries scan_plugins still visits after load_plugin failed on d: the
\* error is printed and the loop goes on.
RestAfterFailure(todo, d) == todo \ {d}

\* One iteration of the loop of scan_plugins: load_plugin on one entry, in
\* the order read_dir yields them (any order).
scan_entry(t) ==
    /\ pc[t] = "scan_entry"
    /\ \E d \in loc[t].todo :
        IF LoaderLoadOk(d)
        THEN /\ plugins' = LoaderInsert(plugins, d)
             /\ loc' = [loc EXCEPT ![t].todo = @ \ {d},
                                   ![t].found = ScanPush(t, @, ManifestId(d))]
        ELSE /\ plugins' = plugins
             /\ loc' = [loc EXCEPT ![t].todo = RestAfterFailure(@, d)]
    /\ UNCHANGED <<disk, instances, dropped, instLock, registry, pc, cmd, ret, ncmds>>
    /\ UNCHANGED <<hostVars, sched, svcVars, mf>>

\* scan_plugins returns Ok(loaded_ids): the startup thread goes on to load
\* them, install_plugin returns.
scan_end(t) ==
    /\ pc[t] = "scan_entry"
    /\ loc[t].todo = {}
    /\ IF cmd[t] = "startup"
       THEN /\ Goto(t, "st_next")
            /\ UNCHANGED <<loc, ret>>
       ELSE /\ Finish(t, "ok")
            /\ loc' = [loc EXCEPT ![t] = Returned(@)]
    /\ UNCHANGED <<disk, plugins, instances, dropped, instLock, registry, cmd, ncmds>>
    /\ UNCHANGED <<hostVars, sched, svcVars, mf>>

\* A loader that sets the flag of every catalog entry.
LoaderSetAll(cat, id, flag) == [i \in Ids |-> [cat[i] EXCEPT !.enabled = flag]]

\* PluginLoader::enable_plugin / disable_plugin on the catalog.
LoaderSetEnabled(cat, id, flag) == [cat EXCEPT ![id].enabled = flag]

\* An uninstall that empties the catalog.
LoaderClear(cat, id) == [i \in Ids |-> Absent]

\* PluginLoader::uninstall_plugin removes the catalog entry.
LoaderRemove(cat, id) == [cat EXCEPT ![id] = Absent]

(***************************************************************************)
(* Execution Runtime: PluginRuntime (plugins/runtime.rs).                   *)
(***************************************************************************)
\* The lock taken shared: a holder does not keep others out.
WriteLockShared == TRUE

\* self.instances.write(): blocks while another thread holds the lock.
WriteLockFree == instLock = Free
\* self.instances.read(): blocks while a writer holds the lock.
ReadLockFree == instLock = Free

\* PluginRuntime::is_loaded
is_loaded(id) == instances[id].alive
\* PluginRuntime::loaded_plugin_ids
loaded_plugin_ids == {i \in Ids : instances[i].alive}

Exports(i) == ModuleExports(i.module)

\* What is recorded of an instance when it is destroyed, and how it came to
\* be destroyed: "unloaded" by unload_plugin or "replaced" by an insert.
Epitaph(i, how) ==
    [pid |-> i.pid, module |-> i.module, gen |-> i.gen, inits |-> i.inits,
     shutdowns |-> i.shutdowns, how |-> how]

\* Plugin::new returns a new object each time: instances of a plugin id are
\* told apart by the order in which they were created.
NextGen(id) ==
    LET used == {e.gen : e \in {x \in dropped : x.pid = id}}
                \cup {instances[id].gen}
                \cup {loc[t].mine.gen : t \in {u \in Threads : loc[u].mine.pid = id}}
    IN  1 + CHOOSE g \in used \cup {0} : \A h \in used : h <= g

\* A module without an init export refused: nothing usable is built.
NewInstanceInitRequired(id, module, initOk) ==
    [pid |-> id, module |-> module, gen |-> NextGen(id),
     alive |-> "init" \in ModuleExports(module),
     inits |-> IF "init" \in ModuleExports(module) THEN 1 ELSE 0,
     initFailed |-> ~initOk,
     shutdowns |-> 0]

\* The PluginInstance load_plugin builds: Plugin::new succeeded, and init was
\* called once if the module exports it (its failure is only logged).
NewInstance(id, module, initOk) ==
    [pid |-> id, module |-> module, gen |-> NextGen(id), alive |-> TRUE,
     inits |-> IF "init" \in ModuleExports(module) THEN 1 ELSE 0,
     initFailed |-> "init" \in ModuleExports(module) /\ ~initOk,
     shutdowns |-> 0]

\* The error of Plugin::new swallowed: load_plugin returns Ok without an instance.
load_failed_swallowed(t) ==
    /\ ret' = [ret EXCEPT ![t] = "ok"]
    /\ IF cmd[t] = "startup"
       THEN /\ Goto(t, "st_next")
            /\ UNCHANGED loc
       ELSE /\ Goto(t, "done")
            /\ loc' = [loc EXCEPT ![t] = Returned(@)]

\* load_plugin returns the error of Plugin::new (the `?` of runtime.rs:46).
\* enable_plugin propagates it; the startup thread logs it and goes on.
load_failed(t) ==
    /\ ret' = [ret EXCEPT ![t] = "err_load"]
    /\ IF cmd[t] = "startup"
       THEN /\ Goto(t, "st_next")
            /\ UNCHANGED loc
       ELSE /\ Goto(t, "done")
            /\ loc' = [loc EXCEPT ![t] = Returned(@)]

\* load_plugin, up to the lock: Plugin::new instantiates the module and the
\* guest's init export is called; all of it on a local, outside the lock.
load_new(t) ==
    /\ pc[t] = "load_new"
    /\ \E created \in BOOLEAN, initOk \in BOOLEAN :
        IF created
        THEN /\ loc' = [loc EXCEPT ![t].mine =
                                NewInstance(loc[t].id, loc[t].snap.path, initOk)]
             /\ Goto(t, "load_insert")
             /\ UNCHANGED ret
        ELSE load_failed(t)
    /\ UNCHANGED <<disk, plugins, instances, dropped, instLock, registry, cmd, ncmds>>
    /\ UNCHANGED <<hostVars, sched, svcVars, mf>>

\* HashMap::insert under the write lock: a value already stored under the key
\* is returned by insert and dropped, without any call into it.
TableInsert(id, i) ==
    /\ instances' = [instances EXCEPT ![id] = i]
    /\ dropped' = IF instances[id].alive
                  THEN dropped \cup {Epitaph(instances[id], "replaced")}
                  ELSE dropped

\* load_plugin, the end: insert under the write lock and return Ok.
load_insert(t) ==
    /\ pc[t] = "load_insert"
    /\ WriteLockFree
    /\ TableInsert(loc[t].id, loc[t].mine)
    /\ ret' = [ret EXCEPT ![t] = "ok"]
    /\ IF cmd[t] = "startup"
       THEN /\ Goto(t, "st_register")
            /\ loc' = [loc EXCEPT ![t].mine = NoInstance]
       ELSE /\ Goto(t, "done")
            /\ loc' = [loc EXCEPT ![t] = Returned(@)]
    /\ UNCHANGED <<disk, plugins, instLock, registry, cmd, ncmds>>
    /\ UNCHANGED <<hostVars, sched, svcVars, mf>>

\* unload_plugin refusing an id that has no instance, as call_search does.
unload_missing_refused(t) ==
    /\ Finish(t, "err_not_loaded")
    /\ loc' = [loc EXCEPT ![t] = [Returned(@) EXCEPT !.out = "no_instance"]]
    /\ UNCHANGED <<instances, instLock>>

\* unload_plugin when instances.remove returns None: the if-let body is
\* skipped and Ok(()) returned.
unload_missing(t) ==
    /\ Finish(t, "ok")
    /\ loc' = [loc EXCEPT ![t] = [Returned(@) EXCEPT !.out = "no_instance"]]
    /\ UNCHANGED <<instances, instLock>>

\* unload_plugin looking the instance up with get instead of remove: the
\* table keeps the instance that is shut down.
unload_lock_kept(t) ==
    /\ pc[t] = "unload_lock"
    /\ WriteLockFree
    /\ IF is_loaded(loc[t].id)
       THEN /\ loc' = [loc EXCEPT ![t].mine = instances[loc[t].id]]
            /\ instLock' = t
            /\ Goto(t, "unload_shutdown")
            /\ UNCHANGED <<ret, instances>>
       ELSE unload_missing(t)
    /\ UNCHANGED <<disk, plugins, dropped, registry, cmd, ncmds>>
    /\ UNCHANGED <<hostVars, sched, svcVars, mf>>

\* unload_plugin takes the write lock and removes the instance from the table;
\* with no instance it returns Ok at once.
unload_lock(t) ==
    /\ pc[t] = "unload_lock"
    /\ WriteLockFree
    /\ IF is_loaded(loc[t].id)
       THEN /\ loc' = [loc EXCEPT ![t].mine = instances[loc[t].id]]
            /\ instances' = [instances EXCEPT ![loc[t].id] = NoInstance]
            /\ instLock' = t
            /\ Goto(t, "unload_shutdown")
            /\ UNCHANGED ret
       ELSE unload_missing(t)
    /\ UNCHANGED <<disk, plugins, dropped, registry, cmd, ncmds>>
    /\ UNCHANGED <<hostVars, sched, svcVars, mf>>

\* The result of shutdown handed on to the caller of unload_plugin.
UnloadResultPropagated(out) == IF out = "trap" THEN "err_shutdown" ELSE "ok"

\* What unload_plugin returns after the shutdown call: `let _ =` discards
\* the call's result and the function ends in Ok(()).
UnloadResult(out) == "ok"

\* What the shutdown call of unload_plugin can come to: no call without the
\* export, else a return or a trap of the guest.
ShutdownOutcomes(i) ==
    IF "shutdown" \in Exports(i) THEN {"ok", "trap"} ELSE {"no_export"}

\* unload_plugin, the rest: shutdown is called if exported, its result is
\* discarded, the removed instance is dropped and the lock released.
unload_shutdown(t) ==
    /\ pc[t] = "unload_shutdown"
    /\ \E out \in ShutdownOutcomes(loc[t].mine) :
        /\ dropped' = dropped \cup
              {[Epitaph(loc[t].mine, "unloaded") EXCEPT
                  !.shutdowns = @ + (IF out = "no_export" THEN 0 ELSE 1)]}
        /\ Finish(t, UnloadResult(out))
        /\ loc' = [loc EXCEPT ![t] = [Returned(@) EXCEPT !.out = out]]
    /\ instLock' = Free
    /\ UNCHANGED <<disk, plugins, instances, registry, cmd, ncmds>>
    /\ UNCHANGED <<hostVars, sched, svcVars, mf>>

\* A module without a search export answered with an Err.
MissingSearchRefused == "err_no_export"

\* What call_search returns for a module without a search export: Ok(vec![]).
MissingSearchResult == "ok_empty"

\* A typed call that answers an id without an instance with an empty Ok.
NotLoadedEmpty == "ok_empty"

\* What call_search and call_ai_tool return for an id that has no instance:
\* Err("Plugin not loaded: ...").
NotLoadedResult == "err_not_loaded"

\* call_search takes the write lock and looks the instance up; without an
\* instance it returns Err, without a search export Ok(vec![]).
cs_lock(t) ==
    /\ pc[t] = "cs_lock"
    /\ WriteLockFree
    /\ IF ~is_loaded(loc[t].id)
       THEN /\ loc' = [loc EXCEPT ![t].last = NotLoadedResult]
            /\ Goto(t, "ps_next")
            /\ UNCHANGED instLock
       ELSE IF "search" \notin Exports(instances[loc[t].id])
       THEN /\ loc' = [loc EXCEPT ![t].last = MissingSearchResult]
            /\ Goto(t, "ps_next")
            /\ UNCHANGED instLock
       ELSE /\ loc' = [loc EXCEPT ![t].called = @ \cup {loc[t].id}]
            /\ instLock' = t
            /\ Goto(t, "cs_call")
    /\ UNCHANGED <<disk, plugins, instances, dropped, registry, cmd, ret, ncmds>>
    /\ UNCHANGED <<hostVars, sched, svcVars, mf>>

\* A trap of the guest's search handed to the caller as an Err.
SearchResultStrict(out) ==
    CASE out = "ok"      -> "ok"
      [] out = "badjson" -> "err_parse"
      [] out = "trap"    -> "err_call"

\* What call_search makes of the guest call's outcome: the parsed results, an
\* Err when the output does not parse, Ok(vec![]) when the guest trapped.
SearchResult(out) ==
    CASE out = "ok"      -> "ok"
      [] out = "badjson" -> "err_parse"
      [] out = "trap"    -> "ok_empty"

\* One plugin's failure emptying the provider's result list.
MergeOrFail(results, id, r) == IF r = "ok" THEN results \cup {id} ELSE {}

\* The provider's match on what call_search returned: the results of an Ok
\* are pushed to the list, an Err is logged.
Merge(results, id, r) == IF r = "ok" THEN results \cup {id} ELSE results

\* The guest's search export returns; call_search releases the lock. The
\* provider appends the results of an Ok and logs an Err.
cs_call(t) ==
    /\ pc[t] = "cs_call"
    /\ \E out \in {"ok", "trap", "badjson"} :
        loc' = [loc EXCEPT ![t].last = SearchResult(out),
                           ![t].out = out,
                           ![t].results = Merge(@, loc[t].id, SearchResult(out))]
    /\ instLock' = Free
    /\ Goto(t, "ps_next")
    /\ UNCHANGED <<disk, plugins, instances, dropped, registry, cmd, ret, ncmds>>
    /\ UNCHANGED <<hostVars, sched, svcVars, mf>>

\* A module without the execute_ai_tool export answered with an empty Ok.
MissingAiToolEmpty == "ok"

\* What call_ai_tool returns for a module without the execute_ai_tool
\* export: Err("Plugin ... does not support AI tools").
MissingAiToolResult == "err_no_export"

\* call_ai_tool takes the write lock and looks the instance up; without an
\* instance or without the execute_ai_tool export it returns Err.
ai_lock(t) ==
    /\ pc[t] = "ai_lock"
    /\ WriteLockFree
    /\ IF ~is_loaded(loc[t].id)
       THEN /\ Finish(t, NotLoadedResult)
            /\ UNCHANGED instLock
       ELSE IF "execute_ai_tool" \notin Exports(instances[loc[t].id])
       THEN /\ Finish(t, MissingAiToolResult)
            /\ UNCHANGED instLock
       ELSE /\ instLock' = t
            /\ Goto(t, "ai_call")
            /\ UNCHANGED ret
    /\ UNCHANGED <<disk, plugins, instances, dropped, registry, cmd, loc, ncmds>>
    /\ UNCHANGED <<hostVars, sched, svcVars, mf>>

\* What call_ai_tool makes of the guest call's outcome: the output string is
\* returned as it is, without parsing it; a trap becomes an Err.
AiToolResult(out) == IF out = "trap" THEN "err_call" ELSE "ok"

\* A call_ai_tool that returns with the write lock still held.
ai_call_lock_kept(t) ==
    /\ pc[t] = "ai_call"
    /\ \E out \in {"ok", "trap", "badjson"} :
        /\ Finish(t, AiToolResult(out))
        /\ loc' = [loc EXCEPT ![t].out = out]
    /\ UNCHANGED <<disk, plugins, instances, dropped, instLock, registry, cmd, ncmds>>
    /\ UNCHANGED <<hostVars, sched, svcVars, mf>>

\* The guest's execute_ai_tool export returns; call_ai_tool releases the lock.
ai_call(t) ==
    /\ pc[t] = "ai_call"
    /\ \E out \in {"ok", "trap", "badjson"} :
        /\ Finish(t, AiToolResult(out))
        /\ loc' = [loc EXCEPT ![t].out = out]
    /\ instLock' = Free
    /\ UNCHANGED <<disk, plugins, instances, dropped, registry, cmd, ncmds>>
    /\ UNCHANGED <<hostVars, sched, svcVars, mf>>

(***************************************************************************)
(* Plugin search provider: PluginProvider::search (providers/plugins.rs).   *)
(***************************************************************************)
\* The search command: an empty query returns no results at once.
cmd_search(t) ==
    /\ Dispatch(t, "search")
    /\ \E query \in {"", "q"} :
        IF query = ""
        THEN Finish(t, "ok")
        ELSE Goto(t, "ps_ids") /\ UNCHANGED ret
    /\ loc' = [loc EXCEPT ![t] = NoLocals]
    /\ UNCHANGED <<disk, plugins, instances, dropped, instLock, registry>>
    /\ UNCHANGED <<hostVars, sched, svcVars, mf>>

\* runtime.loaded_plugin_ids()
ps_ids(t) ==
    /\ pc[t] = "ps_ids"
    /\ ReadLockFree
    /\ loc' = [loc EXCEPT ![t].pending = loaded_plugin_ids]
    /\ Goto(t, "ps_next")
    /\ UNCHANGED <<disk, plugins, instances, dropped, instLock, registry, cmd, ret, ncmds>>
    /\ UNCHANGED <<hostVars, sched, svcVars, mf>>

\* A provider that calls every plugin of its snapshot.
ShouldCallAny(id) == TRUE

\* The provider's filter: get_plugin(id) is Some and the plugin is enabled.
ShouldCall(id) == Catalogued(id) /\ get_plugin(id).enabled

\* One iteration of the provider's loop: get_plugin, skip the plugin when it
\* is not catalogued or disabled, else call_search.
ps_visit(t) ==
    /\ pc[t] = "ps_next"
    /\ \E id \in loc[t].pending :
        /\ loc' = [loc EXCEPT ![t].pending = @ \ {id}, ![t].id = id, ![t].out = "none"]
        /\ IF ShouldCall(id)
           THEN Goto(t, "cs_lock")
           ELSE UNCHANGED pc
    /\ UNCHANGED <<disk, plugins, instances, dropped, instLock, registry, cmd, ret, ncmds>>
    /\ UNCHANGED <<hostVars, sched, svcVars, mf>>

\* The loop is over: the provider returns the merged results.
ps_end(t) ==
    /\ pc[t] = "ps_next"
    /\ loc[t].pending = {}
    /\ Finish(t, "ok")
    /\ loc' = [loc EXCEPT ![t] = Returned(@)]
    /\ UNCHANGED <<disk, plugins, instances, dropped, instLock, registry, cmd, ncmds>>
    /\ UNCHANGED <<hostVars, sched, svcVars, mf>>

(***************************************************************************)
(* The Tauri commands and the plugin loading thread (lib.rs).               *)
(***************************************************************************)
\* enable_plugin: plugin_loader.enable_plugin(id)?
cmd_enable(t) ==
    /\ Dispatch(t, "enable")
    /\ \E id \in Ids :
        /\ loc' = [loc EXCEPT ![t] = [NoLocals EXCEPT !.id = id]]
        /\ IF Catalogued(id)
           THEN /\ plugins' = LoaderSetEnabled(plugins, id, TRUE)
                /\ Goto(t, "en_get")
                /\ UNCHANGED ret
           ELSE /\ Finish(t, "err_not_found")
                /\ UNCHANGED plugins
    /\ UNCHANGED <<disk, instances, dropped, instLock, registry>>
    /\ UNCHANGED <<hostVars, sched, svcVars, mf>>

\* enable_plugin: if let Some(plugin) = plugin_loader.get_plugin(id)
en_get(t) ==
    /\ pc[t] = "en_get"
    /\ IF Catalogued(loc[t].id)
       THEN /\ loc' = [loc EXCEPT ![t].snap = get_plugin(loc[t].id)]
            /\ Goto(t, "en_isloaded")
            /\ UNCHANGED ret
       ELSE /\ Finish(t, "ok")
            /\ loc' = [loc EXCEPT ![t] = Returned(@)]
    /\ UNCHANGED <<disk, plugins, instances, dropped, instLock, registry, cmd, ncmds>>
    /\ UNCHANGED <<hostVars, sched, svcVars, mf>>

\* enable_plugin: if !plugin_runtime.is_loaded(id) { load_plugin(&plugin)? }
en_isloaded(t) ==
    /\ pc[t] = "en_isloaded"
    /\ ReadLockFree
    /\ IF is_loaded(loc[t].id)
       THEN /\ Finish(t, "ok")
            /\ loc' = [loc EXCEPT ![t] = Returned(@)]
       ELSE /\ Goto(t, "load_new")
            /\ UNCHANGED <<loc, ret>>
    /\ UNCHANGED <<disk, plugins, instances, dropped, instLock, registry, cmd, ncmds>>
    /\ UNCHANGED <<hostVars, sched, svcVars, mf>>

\* disable_plugin: plugin_loader.disable_plugin(id)?, then unload_plugin(id)?
cmd_disable(t) ==
    /\ Dispatch(t, "disable")
    /\ \E id \in Ids :
        /\ loc' = [loc EXCEPT ![t] = [NoLocals EXCEPT !.id = id]]
        /\ IF Catalogued(id)
           THEN /\ plugins' = LoaderSetEnabled(plugins, id, FALSE)
                /\ Goto(t, "unload_lock")
                /\ UNCHANGED ret
           ELSE /\ Finish(t, "err_not_found")
                /\ UNCHANGED plugins
    /\ UNCHANGED <<disk, instances, dropped, instLock, registry>>
    /\ UNCHANGED <<hostVars, sched, svcVars, mf>>

\* uninstall_plugin: plugin_loader.uninstall_plugin(id) and nothing else.
\* The loader removes the catalog entry, then deletes the directory, which
\* can fail.
cmd_uninstall(t) ==
    /\ Dispatch(t, "uninstall")
    /\ \E id \in Ids, removed \in BOOLEAN :
        /\ loc' = [loc EXCEPT ![t] = [NoLocals EXCEPT !.id = id]]
        /\ IF Catalogued(id)
           THEN /\ plugins' = LoaderRemove(plugins, id)
                /\ IF removed
                   THEN disk' = disk \ {plugins[id].path} /\ Finish(t, "ok")
                   ELSE disk' = disk /\ Finish(t, "err_io")
           ELSE /\ Finish(t, "err_not_found")
                /\ UNCHANGED <<plugins, disk>>
    /\ UNCHANGED <<instances, dropped, instLock, registry>>
    /\ UNCHANGED <<hostVars, sched, svcVars, mf>>

\* install_plugin: the plugin's directory is copied or extracted under the
\* plugins root, then the root is rescanned.
cmd_install(t) ==
    /\ Dispatch(t, "install")
    /\ \E d \in Dirs :
        disk' = disk \cup {d}
    /\ loc' = [loc EXCEPT ![t] = NoLocals]
    /\ Goto(t, "scan_begin")
    /\ UNCHANGED <<plugins, instances, dropped, instLock, registry, ret>>
    /\ UNCHANGED <<hostVars, sched, svcVars, mf>>

\* execute_plugin_ai_tool: the arguments are parsed, then call_ai_tool.
cmd_ai_tool(t) ==
    /\ Dispatch(t, "ai_tool")
    /\ \E id \in Ids, argsOk \in BOOLEAN :
        /\ loc' = [loc EXCEPT ![t] = [NoLocals EXCEPT !.id = id]]
        /\ IF argsOk
           THEN Goto(t, "ai_lock") /\ UNCHANGED ret
           ELSE Finish(t, "err_args")
    /\ UNCHANGED <<disk, plugins, instances, dropped, instLock, registry>>
    /\ UNCHANGED <<hostVars, sched, svcVars, mf>>

\* The command's result has been delivered; the thread is free again.
cmd_return(t) ==
    /\ pc[t] = "done"
    /\ pc' = [pc EXCEPT ![t] = "idle"]
    /\ cmd' = [cmd EXCEPT ![t] = "none"]
    /\ ret' = [ret EXCEPT ![t] = "none"]
    /\ loc' = [loc EXCEPT ![t] = NoLocals]
    /\ UNCHANGED <<disk, plugins, instances, dropped, instLock, registry, ncmds>>
    /\ UNCHANGED <<hostVars, sched, svcVars, mf>>

\* The loading thread's loop over the scanned ids: get_plugin, and
\* load_plugin when the plugin is enabled.
st_next(t) ==
    /\ pc[t] = "st_next"
    /\ loc[t].found # <<>>
    /\ LET id == Head(loc[t].found) IN
        /\ loc' = [loc EXCEPT ![t].found = Tail(@), ![t].id = id,
                              ![t].snap = get_plugin(id)]
        /\ IF Catalogued(id) /\ get_plugin(id).enabled
           THEN Goto(t, "load_new")
           ELSE UNCHANGED pc
    /\ UNCHANGED <<disk, plugins, instances, dropped, instLock, registry, cmd, ret, ncmds>>
    /\ UNCHANGED <<hostVars, sched, svcVars, mf>>

\* The loading thread, after Ok of load_plugin: the manifest's commands are
\* registered with the command registry.
st_register(t) ==
    /\ pc[t] = "st_register"
    /\ registry' = registry \cup
           {<<loc[t].id, trigger>> : trigger \in ManifestCommands(loc[t].snap.path)}
    /\ Goto(t, "st_next")
    /\ UNCHANGED <<disk, plugins, instances, dropped, instLock, cmd, loc, ret, ncmds>>
    /\ UNCHANGED <<hostVars, sched, svcVars, mf>>

\* The loading thread ends.
st_end(t) ==
    /\ pc[t] = "st_next"
    /\ loc[t].found = <<>>
    /\ Goto(t, "finished")
    /\ loc' = [loc EXCEPT ![t] = NoLocals]
    /\ ret' = [ret EXCEPT ![t] = "none"]
    /\ UNCHANGED <<disk, plugins, instances, dropped, instLock, registry, cmd, ncmds>>
    /\ UNCHANGED <<hostVars, sched, svcVars, mf>>

Next ==
    \/ \E t \in Threads : scan_begin(t)
    \/ \E t \in Threads : scan_entry(t)
    \/ \E t \in Threads : scan_end(t)
    \/ \E t \in Threads : st_next(t)
    \/ \E t \in Threads : st_register(t)
    \/ \E t \in Threads : st_end(t)
    \/ \E t \in Threads : load_new(t)
    \/ \E t \in Threads : load_insert(t)
    \/ \E t \in Threads : cmd_enable(t)
    \/ \E t \in Threads : en_get(t)
    \/ \E t \in Threads : en_isloaded(t)
    \/ \E t \in Threads : cmd_disable(t)
    \/ \E t \in Threads : unload_lock(t)
    \/ \E t \in Threads : unload_shutdown(t)
    \/ \E t \in Threads : cmd_uninstall(t)
    \/ \E t \in Threads : cmd_search(t)
    \/ \E t \in Threads : ps_ids(t)
    \/ \E t \in Threads : ps_visit(t)
    \/ \E t \in Threads : ps_end(t)
    \/ \E t \in Threads : cs_lock(t)
    \/ \E t \in Threads : cs_call(t)
    \/ \E t \in Threads : cmd_ai_tool(t)
    \/ \E t \in Threads : ai_lock(t)
    \/ \E t \in Threads : ai_call(t)
    \/ \E t \in Threads : cmd_return(t)

\* The loading thread and the commands that enable, disable, uninstall and
\* call plugins.
Spec == Init /\ [][Next]_vars

\* The steps a thread takes on its own once its command was invoked (or,
\* for the loading thread, once the process started).
Run(t) ==
    \/ scan_begin(t) \/ scan_entry(t) \/ scan_end(t)
    \/ st_next(t) \/ st_register(t) \/ st_end(t)
    \/ load_new(t) \/ load_insert(t)
    \/ en_get(t) \/ en_isloaded(t)
    \/ unload_lock(t) \/ unload_shutdown(t)
    \/ ps_ids(t) \/ ps_visit(t) \/ ps_end(t)
    \/ cs_lock(t) \/ cs_call(t)
    \/ ai_lock(t) \/ ai_call(t)

\* The same behaviours, with every thread scheduled again and again and
\* every guest call returning.
SpecLive == Spec /\ \A t \in Threads : WF_vars(Run(t))

\* The same with install_plugin, which adds a directory and rescans the root.
NextInstall ==
    \/ Next
    \/ \E t \in Threads : cmd_install(t)

SpecInstall == Init /\ [][NextInstall]_vars

\* A serial run: the frontend waits for the loading thread to end, then
\* invokes one command at a time and awaits its result.
InitSerial ==
    /\ disk \in SerialDisks
    /\ sched = "serial"
    /\ InitTables
    /\ InitHost

SpecSerial == InitSerial /\ [][Next]_vars

\* A serial run in which the frontend also installs plugins.
SpecSerialInstall == InitSerial /\ [][NextInstall]_vars

(***************************************************************************)
(* The filesystem as std::fs and std::path see it.                          *)
(***************************************************************************)
Last(q) == q[Len(q)]
\* Path::parent: the path without its final component.
Parent(q) == IF q = <<>> THEN <<>> ELSE SubSeq(q, 1, Len(q) - 1)
\* Path::file_name is None when the path is empty or ends in "..".
HasFileName(q) == q # <<>> /\ Last(q) # ".."
\* Path::starts_with: component-wise prefix.
starts_with(q, base) == Len(base) <= Len(q) /\ SubSeq(q, 1, Len(base)) = base
\* PathBuf::join of a relative path.
join(base, rel) == base \o rel.comps
\* Path::is_absolute
is_absolute(path) == path.abs

\* A symlink is followed to its target.
Follow(q) == IF q \in DOMAIN Symlinks THEN Symlinks[q] ELSE q

\* Path lookup as the kernel does it, from the physical directory cur: ".."
\* is the parent of the directory reached, symlinks are followed, and every
\* component but the last must be a directory.
RECURSIVE Walk(_, _, _)
Walk(dirs, cur, comps) ==
    IF comps = <<>> THEN [ok |-> TRUE, path |-> cur]
    ELSE IF cur \notin dirs THEN [ok |-> FALSE, path |-> cur]
    ELSE IF Head(comps) = ".." THEN Walk(dirs, Parent(cur), Tail(comps))
    ELSE LET tgt == Follow(Append(cur, Head(comps))) IN
         IF tgt \in dirs \/ tgt \in DOMAIN fsFiles
         THEN Walk(dirs, tgt, Tail(comps))
         ELSE [ok |-> FALSE, path |-> tgt]

\* Path::exists (false for a dangling symlink) and Path::canonicalize.
exists(dirs, q) == Walk(dirs, <<>>, q).ok
canonicalize(dirs, q) == Walk(dirs, <<>>, q)

\* std::fs::create_dir_all: every missing directory on the way is created;
\* what was created before a failure stays.
RECURSIVE MkdirAll(_, _, _)
MkdirAll(dirs, cur, comps) ==
    IF comps = <<>> THEN [ok |-> TRUE, dirs |-> dirs]
    ELSE IF Head(comps) = ".." THEN MkdirAll(dirs, Parent(cur), Tail(comps))
    ELSE LET child == Append(cur, Head(comps)) IN
         IF child \in DOMAIN Symlinks
         THEN IF Symlinks[child] \in dirs
              THEN MkdirAll(dirs, Symlinks[child], Tail(comps))
              ELSE [ok |-> FALSE, dirs |-> dirs]
         ELSE IF child \in DOMAIN fsFiles THEN [ok |-> FALSE, dirs |-> dirs]
         ELSE MkdirAll(dirs \cup {child}, child, Tail(comps))
create_dir_all(dirs, q) == MkdirAll(dirs, <<>>, q)

\* std::fs::read: the content of the regular file the path leads to.
fs_read(q) ==
    LET r == Walk(fsDirs, <<>>, q) IN
    IF r.ok /\ r.path \in DOMAIN fsFiles
    THEN [err |-> "Ok", out |-> fsFiles[r.path], hit |-> {r.path}]
    ELSE [err |-> "IOError", out |-> "", hit |-> {}]

\* std::fs::write: open with create and truncate, following a symlink in the
\* last component, so a dangling symlink creates its target.
fs_write(q, data) ==
    LET pr == Walk(fsDirs, <<>>, Parent(q))
        tgt == Follow(Append(pr.path, Last(q)))
    IN  IF q = <<>> \/ ~pr.ok \/ pr.path \notin fsDirs \/ tgt \in fsDirs
           \/ Parent(tgt) \notin fsDirs \/ tgt \in DOMAIN Symlinks
        THEN [err |-> "IOError", files |-> fsFiles, hit |-> {}]
        ELSE [err |-> "Ok", files |-> (tgt :> data) @@ fsFiles, hit |-> {tgt}]

(***************************************************************************)
(* Capability Host: DefaultHostApi (plugins/host_api.rs).                   *)
(***************************************************************************)
\* DefaultHostApi::get_plugin_data_dir
get_plugin_data_dir(id) == Append(plugins_data_dir, id)

\* The security check of resolve_sandboxed_path on the path to check.
SandboxCheck(q, canonical_data_dir, dirs) ==
    IF starts_with(q, canonical_data_dir)
    THEN [err |-> "Ok", path |-> q, dirs |-> dirs]
    ELSE [err |-> "PathTraversalDenied", path |-> <<>>, dirs |-> dirs]

\* DefaultHostApi::resolve_sandboxed_path: the result, the canonical path on
\* Ok, and the directories of the filesystem after the call.
resolve_sandboxed_path(id, path) ==
    LET perm == perms[id]
        Err(e, dirs) == [err |-> e, path |-> <<>>, dirs |-> dirs]
    IN
    IF ~perm.registered THEN Err("NotRegistered", fsDirs)
    ELSE IF is_absolute(path) THEN Err("AbsoluteDenied", fsDirs)
    ELSE
      LET resolved_path == join(perm.data_dir, path)
          cdd == canonicalize(fsDirs, perm.data_dir)
          canonical_data_dir == IF cdd.ok THEN cdd.path ELSE perm.data_dir
      IN
      IF exists(fsDirs, resolved_path)
      THEN SandboxCheck(canonicalize(fsDirs, resolved_path).path, canonical_data_dir, fsDirs)
      ELSE
        LET parent == Parent(resolved_path)
            made == IF exists(fsDirs, parent)
                    THEN [ok |-> TRUE, dirs |-> fsDirs]
                    ELSE create_dir_all(fsDirs, parent)
            canonical_parent == canonicalize(made.dirs, parent)
        IN
        IF ~made.ok THEN Err("IOError", made.dirs)
        ELSE IF ~canonical_parent.ok THEN Err("IOError", made.dirs)
        ELSE IF ~HasFileName(resolved_path) THEN Err("InvalidPath", made.dirs)
        ELSE SandboxCheck(Append(canonical_parent.path, Last(resolved_path)),
                          canonical_data_dir, made.dirs)

\* DefaultHostApi::register_plugin: the data directory is created (a failure
\* is ignored) and the FsSandbox record inserted.
host_register ==
    /\ ncalls < MaxCalls
    /\ ncalls' = ncalls + 1
    /\ \E id \in Ids, can_read \in BOOLEAN, can_write \in BOOLEAN :
        /\ fsDirs' = create_dir_all(fsDirs, get_plugin_data_dir(id)).dirs
        /\ perms' = [perms EXCEPT ![id] =
               [registered |-> TRUE, can_read |-> can_read, can_write |-> can_write,
                data_dir |-> get_plugin_data_dir(id)]]
    /\ UNCHANGED <<fsFiles, hpc, hloc, hret>>
    /\ UNCHANGED <<rtVars, sched, svcVars, mf>>

\* DefaultHostApi::unregister_plugin
host_unregister ==
    /\ ncalls < MaxCalls
    /\ ncalls' = ncalls + 1
    /\ \E id \in Ids :
        perms' = [perms EXCEPT ![id] = NoPerms]
    /\ UNCHANGED <<fsDirs, fsFiles, hpc, hloc, hret>>
    /\ UNCHANGED <<rtVars, sched, svcVars, mf>>

\* write_file testing the flag read_file tests.
WriteAllowedByRead(perm) == perm.can_read

\* The permission flag read_file / write_file test.
ReadAllowed(perm) == perm.can_read
WriteAllowed(perm) == perm.can_write

\* The first block of read_file / write_file: the permission check, under
\* the read lock of plugin_permissions.
PermissionCheck(id, allowed) ==
    IF ~perms[id].registered THEN "NotRegistered"
    ELSE IF ~allowed THEN "PermissionDenied"
    ELSE "Ok"

\* What a caller does once its permission check returned e.
AfterCheck(h, e) ==
    IF e = "Ok"
    THEN /\ hpc' = [hpc EXCEPT ![h] = "resolve"]
         /\ UNCHANGED hret
    ELSE /\ hpc' = [hpc EXCEPT ![h] = "done"]
         /\ hret' = [hret EXCEPT ![h] = e]

\* read_file is called and checks the permission.
host_read(h) ==
    /\ hpc[h] = "idle"
    /\ ncalls < MaxCalls
    /\ ncalls' = ncalls + 1
    /\ \E id \in Ids, path \in PathInputs :
        /\ hloc' = [hloc EXCEPT ![h] = [NoCall EXCEPT !.op = "read", !.id = id, !.path = path]]
        /\ AfterCheck(h, PermissionCheck(id, ReadAllowed(perms[id])))
    /\ UNCHANGED <<perms, fsDirs, fsFiles>>
    /\ UNCHANGED <<rtVars, sched, svcVars, mf>>

\* write_file is called and checks the permission.
host_write(h) ==
    /\ hpc[h] = "idle"
    /\ ncalls < MaxCalls
    /\ ncalls' = ncalls + 1
    /\ \E id \in Ids, path \in PathInputs :
        /\ hloc' = [hloc EXCEPT ![h] = [NoCall EXCEPT !.op = "write", !.id = id, !.path = path]]
        /\ AfterCheck(h, PermissionCheck(id, WriteAllowed(perms[id])))
    /\ UNCHANGED <<perms, fsDirs, fsFiles>>
    /\ UNCHANGED <<rtVars, sched, svcVars, mf>>

\* read_file / write_file: self.resolve_sandboxed_path(plugin_id, path)?
host_resolve(h) ==
    /\ hpc[h] = "resolve"
    /\ LET r == resolve_sandboxed_path(hloc[h].id, hloc[h].path) IN
        /\ fsDirs' = r.dirs
        /\ hloc' = [hloc EXCEPT ![h].resolved = r.path, ![h].made = r.dirs \ fsDirs]
        /\ IF r.err = "Ok"
           THEN /\ hpc' = [hpc EXCEPT ![h] = "io"]
                /\ UNCHANGED hret
           ELSE /\ hpc' = [hpc EXCEPT ![h] = "done"]
                /\ hret' = [hret EXCEPT ![h] = r.err]
    /\ UNCHANGED <<perms, fsFiles, ncalls>>
    /\ UNCHANGED <<rtVars, sched, svcVars, mf>>

\* The bytes write_file writes.
WriteData == "new"

\* read_file / write_file: std::fs::read or std::fs::write on the resolved path.
host_io(h) ==
    /\ hpc[h] = "io"
    /\ IF hloc[h].op = "read"
       THEN LET r == fs_read(hloc[h].resolved) IN
            /\ hloc' = [hloc EXCEPT ![h].out = r.out, ![h].hit = r.hit]
            /\ hret' = [hret EXCEPT ![h] = r.err]
            /\ UNCHANGED fsFiles
       ELSE LET r == fs_write(hloc[h].resolved, WriteData) IN
            /\ hloc' = [hloc EXCEPT ![h].hit = r.hit]
            /\ hret' = [hret EXCEPT ![h] = r.err]
            /\ fsFiles' = r.files
    /\ hpc' = [hpc EXCEPT ![h] = "done"]
    /\ UNCHANGED <<perms, fsDirs, ncalls>>
    /\ UNCHANGED <<rtVars, sched, svcVars, mf>>

\* The result has been handed to the guest.
host_return(h) ==
    /\ hpc[h] = "done"
    /\ hpc' = [hpc EXCEPT ![h] = "idle"]
    /\ hloc' = [hloc EXCEPT ![h] = NoCall]
    /\ hret' = [hret EXCEPT ![h] = "none"]
    /\ UNCHANGED <<perms, fsDirs, fsFiles, ncalls>>
    /\ UNCHANGED <<rtVars, sched, svcVars, mf>>

NextHost ==
    \/ host_register
    \/ host_unregister
    \/ \E h \in HThreads : host_read(h)
    \/ \E h \in HThreads : host_write(h)
    \/ \E h \in HThreads : host_resolve(h)
    \/ \E h \in HThreads : host_io(h)
    \/ \E h \in HThreads : host_return(h)

SpecHost == Init /\ [][NextHost]_vars

(***************************************************************************)
(* Capability Host: config store, HTTP and OAuth (plugins/host_api.rs).     *)
(***************************************************************************)
\* The sequences that list every element of S once.
Orderings(S) ==
    {q \in [1..Cardinality(S) -> S] : \A e \in S : \E i \in DOMAIN q : q[i] = e}

\* A serialisation that keeps only the members with the first key.
SerializeFirstKey(c) == Orderings({e \in c : e[1] = "k1"})

\* serde_json::to_string_pretty(&config): the members of the HashMap, in the
\* order its iteration yields, whichever it is.
Serialize(c) == Orderings(c)

\* serde_json::from_str::<PluginConfig>(&content): fails on a text that is
\* not a document; of two members with the same key the later one wins.
from_str(text) ==
    IF \E i \in DOMAIN text : Len(text[i]) # 2
    THEN [ok |-> FALSE, config |-> DefaultConfig]
    ELSE [ok |-> TRUE,
          config |-> {text[i] : i \in {j \in DOMAIN text :
                        \A k \in DOMAIN text : k > j => text[k][1] # text[j][1]}}]

\* DefaultHostApi::get_config: the parsed file, the default when the file
\* cannot be read or parsed.
get_config(id) ==
    IF get_config_path(id) \in DOMAIN cfgFiles
    THEN from_str(cfgFiles[get_config_path(id)]).config
    ELSE DefaultConfig

\* DefaultHostApi::set_config: std::fs::write of the serialised config.
set_config(id, text) ==
    IF config_dir \in fsDirs
    THEN [res |-> "ok",
          files |-> [f \in DOMAIN cfgFiles \cup {get_config_path(id)} |->
                        IF f = get_config_path(id) THEN text ELSE cfgFiles[f]]]
    ELSE [res |-> "err_io", files |-> cfgFiles]

\* A call of the host's config, HTTP or OAuth functions begins.
SvcCall ==
    /\ ncalls < MaxCalls
    /\ ncalls' = ncalls + 1
    /\ UNCHANGED <<perms, fsDirs, fsFiles, hpc, hloc, hret>>
    /\ UNCHANGED <<rtVars, sched, mf>>

host_set_config ==
    /\ SvcCall
    /\ \E id \in Ids, c \in Configs :
        \E text \in Serialize(c) :
            /\ cfgFiles' = set_config(id, text).files
            /\ svc' = [NoSvc EXCEPT !.n = ncalls', !.op = "set_config", !.id = id,
                                    !.config = c, !.res = set_config(id, text).res]

host_get_config ==
    /\ SvcCall
    /\ \E id \in Ids :
        svc' = [NoSvc EXCEPT !.n = ncalls', !.op = "get_config", !.id = id,
                            !.config = get_config(id), !.res = "ok"]
    /\ UNCHANGED cfgFiles

\* request.method.to_uppercase() for the methods guests pass.
to_uppercase(method) == IF method = "post" THEN "POST" ELSE method
HttpMethods == {"GET", "post", "TRACE"}

\* An http_request that refuses plugins without the Network permission.
http_request_gated(id, method, net) ==
    IF ~perms[id].registered \/ <<"network">> \notin ManifestPermissions(id)
    THEN "PermissionDenied"
    ELSE IF to_uppercase(method) \notin {"GET", "POST", "PUT", "DELETE", "PATCH"}
    THEN "err_method"
    ELSE IF net = "send_err" THEN "err_request"
    ELSE IF net = "body_err" THEN "err_body"
    ELSE "ok"

\* DefaultHostApi::http_request: the method is matched, the request sent and
\* the body read; net is what the network does with the request.
http_request(id, method, net) ==
    IF to_uppercase(method) \notin {"GET", "POST", "PUT", "DELETE", "PATCH"}
    THEN "err_method"
    ELSE IF net = "send_err" THEN "err_request"
    ELSE IF net = "body_err" THEN "err_body"
    ELSE "ok"

host_http ==
    /\ SvcCall
    /\ \E id \in Ids, method \in HttpMethods, net \in {"reply", "send_err", "body_err"} :
        svc' = [NoSvc EXCEPT !.n = ncalls', !.op = "http_request", !.id = id,
                            !.arg = method, !.env = net,
                            !.res = http_request(id, method, net)]
    /\ UNCHANGED cfgFiles

\* DefaultHostApi::get_oauth_token: prints the request and returns the
\* not-implemented error; stored is what OAuthFlow::get_token_if_valid would
\* yield for the provider ("none" for no valid token).
get_oauth_token(id, provider, stored) == "err_not_implemented"

host_oauth ==
    /\ SvcCall
    /\ \E id \in Ids, provider \in {"github", "gitlab"}, stored \in {"none", "tok"} :
        svc' = [NoSvc EXCEPT !.n = ncalls', !.op = "get_oauth_token", !.id = id,
                            !.arg = provider, !.env = stored,
                            !.res = get_oauth_token(id, provider, stored)]
    /\ UNCHANGED cfgFiles

NextServices ==
    \/ host_register
    \/ host_unregister
    \/ host_set_config
    \/ host_get_config
    \/ host_http
    \/ host_oauth

SpecServices == Init /\ [][NextServices]_vars

(***************************************************************************)
(* Reading and writing manifests.                                           *)
(***************************************************************************)
\* A manifest is serialised.
mf_to_string ==
    /\ \E m \in Manifests :
        mf' = [op |-> "to_string", doc |-> to_string(m), ok |-> TRUE, value |-> m]
    /\ UNCHANGED <<rtVars, hostVars, sched, svcVars>>

\* PluginManifest::from_file on a shipped document, or on the document that
\* was just written.
mf_from_file ==
    /\ \E doc \in ManifestDocs \cup (IF mf.op = "to_string" THEN {mf.doc} ELSE {}) :
        mf' = [op |-> "from_file", doc |-> doc,
               ok |-> manifest_from_str(doc).ok, value |-> manifest_from_str(doc).value]
    /\ UNCHANGED <<rtVars, hostVars, sched, svcVars>>

NextManifest == mf_to_string \/ mf_from_file

SpecManifest == Init /\ [][NextManifest]_vars

TypeOK ==
    /\ disk \subseteq Dirs
    /\ \A i \in Ids : plugins[i].path \in Dirs \cup {NoDir}
    /\ \A i \in Ids : is_loaded(i) => instances[i].pid = i
    /\ instLock \in Threads \cup {Free}
    /\ sched \in {"concurrent", "serial"}
    /\ ncmds \in 0..(IF sched = "serial" THEN MaxSerial ELSE MaxCmds)
    /\ ncalls \in 0..MaxCalls
    /\ svc.n \in 0..MaxCalls /\ svc.config \in Configs
    /\ DOMAIN cfgFiles \subseteq {get_config_path(i) : i \in Ids}
    /\ \A i \in Ids : perms[i].registered => perms[i].data_dir = get_plugin_data_dir(i)

(***************************************************************************)
(* Properties.                                                              *)
(***************************************************************************)
\* The guest instances of a plugin id that exist: the one the table owns and
\* those threads hold in locals.
LiveCount(id) ==
    (IF instances[id].alive THEN 1 ELSE 0)
    + Cardinality({t \in Threads : loc[t].mine.alive /\ loc[t].mine.pid = id})

\* C1: at no time do two instantiated guest modules exist for one plugin id,
\* whatever the interleaving of the loading thread and the commands.
C1_AtMostOneLiveInstance == \A id \in Ids : LiveCount(id) <= 1

\* The physical paths under a plugin's data directory (the directory included).
InDataDir(q, id) == starts_with(q, get_plugin_data_dir(id))

\* C2: an accepted read_file / write_file reads or writes only paths under the
\* plugin's data_dir, and no call with an absolute path gets past resolution.
C2_AcceptedStaysInDataDir ==
    \A h \in HThreads :
        /\ \A q \in hloc[h].hit : InDataDir(q, hloc[h].id)
        /\ hpc[h] = "io" => InDataDir(hloc[h].resolved, hloc[h].id)
        /\ is_absolute(hloc[h].path) => hpc[h] # "io" /\ hret[h] # "Ok"

\* The path with its ".." components applied to what precedes them.
RECURSIVE Normalize(_, _)
Normalize(acc, comps) ==
    IF comps = <<>> THEN acc
    ELSE IF Head(comps) = ".." THEN Normalize(Parent(acc), Tail(comps))
    ELSE Normalize(Append(acc, Head(comps)), Tail(comps))

\* The request names a place outside the plugin's data directory.
Escapes(id, path) ==
    is_absolute(path) \/ ~InDataDir(Normalize(get_plugin_data_dir(id), path.comps), id)

\* C3: a request whose path is absolute or leaves data_dir through ".." fails,
\* and reads, writes and creates nothing outside data_dir, parent directories
\* included.
C3_EscapeTouchesNothingOutside ==
    \A h \in HThreads :
        (hloc[h].op # "none" /\ Escapes(hloc[h].id, hloc[h].path)) =>
            /\ hret[h] # "Ok"
            /\ \A q \in hloc[h].hit \cup hloc[h].made : InDataDir(q, hloc[h].id)

\* The caller h takes a step of its call.
HostStep(h) == hpc'[h] # hpc[h]
\* The relative path names a regular file that exists under the data directory.
NamesFileInDataDir(id, path) ==
    /\ ~is_absolute(path)
    /\ Len(path.comps) = 1
    /\ join(get_plugin_data_dir(id), path) \in DOMAIN fsFiles

\* C4: the permission check comes first. write_file of a plugin registered
\* with can_write = FALSE fails with PermissionDenied for every path and
\* leaves the filesystem alone, and so does read_file with can_read = FALSE;
\* with can_read = TRUE a read_file of a file under data_dir goes through
\* resolution and returns the file's content.
C4_PermissionGating ==
    [][\A h \in HThreads :
        /\ (hpc[h] = "idle" /\ HostStep(h) /\ perms[hloc'[h].id].registered
            /\ hloc'[h].op = "write" /\ ~perms[hloc'[h].id].can_write)
           => (hpc'[h] = "done" /\ hret'[h] = "PermissionDenied"
               /\ fsDirs' = fsDirs /\ fsFiles' = fsFiles)
        /\ (hpc[h] = "idle" /\ HostStep(h) /\ perms[hloc'[h].id].registered
            /\ hloc'[h].op = "read" /\ ~perms[hloc'[h].id].can_read)
           => (hpc'[h] = "done" /\ hret'[h] = "PermissionDenied"
               /\ fsDirs' = fsDirs /\ fsFiles' = fsFiles)
        /\ (hpc[h] = "idle" /\ HostStep(h) /\ perms[hloc'[h].id].registered
            /\ hloc'[h].op = "read" /\ perms[hloc'[h].id].can_read)
           => hpc'[h] = "resolve"
        /\ (hpc[h] = "resolve" /\ HostStep(h) /\ perms[hloc[h].id].registered
            /\ NamesFileInDataDir(hloc[h].id, hloc[h].path))
           => (hpc'[h] = "io"
               /\ hloc'[h].resolved = join(get_plugin_data_dir(hloc[h].id), hloc[h].path))
        /\ (hpc[h] = "io" /\ HostStep(h) /\ hloc[h].op = "read"
            /\ hloc[h].resolved \in DOMAIN fsFiles)
           => (hret'[h] = "Ok" /\ hloc'[h].out = fsFiles[hloc[h].resolved]
               /\ fsDirs' = fsDirs /\ fsFiles' = fsFiles)
      ]_vars

\* A read-only plugin has read its file, and its write to it was denied.
C4_Witness ==
    /\ perms["p1"].registered /\ perms["p1"].can_read /\ ~perms["p1"].can_write
    /\ hpc["h1"] = "done" /\ hloc["h1"].op = "read" /\ hloc["h1"].id = "p1"
    /\ hloc["h1"].path = Rel(<<"n">>) /\ hret["h1"] = "Ok" /\ hloc["h1"].out = "old"
    /\ hpc["h2"] = "done" /\ hloc["h2"].op = "write" /\ hloc["h2"].id = "p1"
    /\ hloc["h2"].path = Rel(<<"n">>) /\ hret["h2"] = "PermissionDenied"

\* C5: every plugin id with a live instance in the runtime has an FsSandbox
\* record in the Capability Host's permission table.
C5_LoadedImpliesRegistered == \A id \in Ids : is_loaded(id) => perms[id].registered

\* The thread's command returns in this step.
Returns(t, names) == pc[t] # "done" /\ pc'[t] = "done" /\ cmd'[t] \in names
\* No other thread is in the middle of a command or of the startup loading.
Alone(t) == \A u \in Threads \ {t} : pc[u] \in {"idle", "done", "finished"}

\* C6: when the disable_plugin or uninstall_plugin command, run with nothing
\* else in progress, returns Ok, the plugin has no instance in the runtime
\* and no instance was dropped without its shutdown call.
C6_TornDownOnDisableAndUninstall ==
    [][\A t \in CmdThreads :
        (Alone(t) /\ Returns(t, {"disable", "uninstall"}) /\ ret'[t] = "ok")
            => /\ ~instances'[loc'[t].id].alive
               /\ \A e \in dropped' \ dropped :
                    "shutdown" \in ModuleExports(e.module) => e.shutdowns = 1]_vars

\* C7: every instance had init called once if its module exports it, and
\* every destroyed instance had shutdown called once if its module exports it.
C7_HooksOncePerInstance ==
    /\ \A e \in dropped :
        /\ "init" \in ModuleExports(e.module) => e.inits = 1
        /\ "shutdown" \in ModuleExports(e.module) => e.shutdowns = 1
    /\ \A id \in Ids :
        (is_loaded(id) /\ "init" \in Exports(instances[id])) => instances[id].inits = 1

\* C8 as claimed: an instance is stored under a plugin id only when every
\* step of load succeeded, the guest's init call included.
C8_LoadAllOrNothing == \A id \in Ids : is_loaded(id) => ~instances[id].initFailed

\* The thread takes a step of its command.
Step(t) == pc'[t] # pc[t]

\* C8 as amended: load fails only when Plugin::new fails; it then returns the
\* error and leaves the table as it was. Otherwise the instance is stored
\* under the plugin id and load returns Ok, whether or not init failed, and
\* nothing else stores an instance.
C8_LoadFailsOnlyOnInstantiate ==
    [][/\ \A t \in Threads :
            /\ (pc[t] = "load_new" /\ Step(t) /\ ~loc'[t].mine.alive)
               => (ret'[t] = "err_load" /\ instances' = instances
                   /\ pc'[t] \in {"done", "st_next"})
            /\ (pc[t] = "load_new" /\ Step(t) /\ loc'[t].mine.alive)
               => (pc'[t] = "load_insert" /\ instances' = instances)
            /\ (pc[t] = "load_insert" /\ Step(t))
               => (instances'[loc[t].id] = loc[t].mine /\ ret'[t] = "ok")
       /\ \A id \in Ids :
            (instances'[id] # instances[id] /\ instances'[id].alive)
               => \E t \in Threads : pc[t] = "load_insert" /\ Step(t)
                                     /\ loc[t].mine = instances'[id]
      ]_vars

\* An instance whose init failed is stored, while a load whose Plugin::new
\* failed has returned its error.
C8_Witness ==
    /\ \E id \in Ids : is_loaded(id) /\ instances[id].initFailed
    /\ \E t \in CmdThreads : pc[t] = "done" /\ cmd[t] = "enable" /\ ret[t] = "err_load"

\* The thread has a call into the instance of id in flight.
InFlight(t, id) ==
    /\ loc[t].id = id
    /\ \/ pc[t] \in {"cs_call", "ai_call"}
       \/ pc[t] = "unload_shutdown" /\ "shutdown" \in Exports(loc[t].mine)

\* C9: for every plugin id at most one operation on its instance is in
\* flight (a search, an AI tool call or the shutdown call of unload).
C9_ExclusiveInstanceAccess ==
    \A id \in Ids : Cardinality({t \in Threads : InFlight(t, id)}) <= 1

\* One call into an instance is in flight while another thread is about to
\* call into the same instance.
C9_Witness ==
    \E t, u \in Threads :
        /\ t # u
        /\ InFlight(t, loc[t].id)
        /\ loc[u].id = loc[t].id
        /\ pc[u] \in {"cs_lock", "ai_lock", "unload_lock"}

\* C10: a typed call into one plugin never waits for a call into another
\* plugin to finish.
C10_NoCrossPluginWait ==
    \A t, u \in Threads :
        ~ /\ pc[t] \in {"cs_lock", "ai_lock"}
          /\ is_loaded(loc[t].id)
          /\ pc[u] \in {"cs_call", "ai_call"}
          /\ instLock = u
          /\ loc[u].id # loc[t].id

\* C11: unload_plugin on an id that has an instance takes the instance out of
\* the table and returns Ok, whether the guest's shutdown is not exported,
\* returns or traps; the id has no instance when it returns.
C11_UnloadAlwaysSucceeds ==
    [][\A t \in Threads :
        /\ (pc[t] = "unload_lock" /\ Step(t) /\ instances[loc[t].id].alive)
           => /\ pc'[t] = "unload_shutdown"
              /\ loc'[t].mine = instances[loc[t].id]
              /\ ~instances'[loc[t].id].alive
        /\ (pc[t] = "unload_shutdown" /\ Step(t))
           => /\ pc'[t] = "done"
              /\ ret'[t] = "ok"
              /\ loc'[t].out \in ShutdownOutcomes(loc[t].mine)
              /\ instances' = instances
              /\ ~instances'[loc[t].id].alive
      ]_vars

\* disable_plugin has returned Ok although the guest's shutdown trapped, and
\* the plugin has no instance.
C11_Witness ==
    \E t \in CmdThreads :
        /\ pc[t] = "done" /\ cmd[t] = "disable" /\ ret[t] = "ok"
        /\ loc[t].out = "trap"
        /\ ~is_loaded(loc[t].id)

\* C12: unload_plugin on an id that has no instance returns Ok, calls no
\* guest code and leaves the instance table as it is, so a second unload
\* changes nothing the first left.
C12_UnloadIdempotent ==
    [][\A t \in Threads :
        (pc[t] = "unload_lock" /\ Step(t) /\ ~instances[loc[t].id].alive)
           => /\ pc'[t] = "done"
              /\ ret'[t] = "ok"
              /\ loc'[t].out = "no_instance"
              /\ instances' = instances
              /\ dropped' = dropped
              /\ instLock' = instLock
      ]_vars

\* A second disable_plugin of a plugin whose instance an earlier unload
\* destroyed has returned Ok without finding an instance.
C12_Witness ==
    \E t \in CmdThreads :
        /\ pc[t] = "done" /\ cmd[t] = "disable" /\ ret[t] = "ok"
        /\ loc[t].out = "no_instance"
        /\ \E e \in dropped : e.pid = loc[t].id /\ e.shutdowns = 1
        /\ ~is_loaded(loc[t].id)

\* C13: whatever commands ran before, a disable_plugin command run with
\* nothing else in progress ends with the plugin having no instance.
C13_DisableAlwaysTearsDown ==
    [][\A t \in CmdThreads :
        (Alone(t) /\ Returns(t, {"disable"})) => ~instances'[loc'[t].id].alive]_vars

\* The plugin has an instance again after unload_plugin destroyed one.
ReEnabled(id) ==
    /\ is_loaded(id)
    /\ \E e \in dropped : e.pid = id /\ e.how = "unloaded"

\* C14: with commands issued one after the other, a plugin that was disabled
\* and enabled again has exactly one instance; the one unload_plugin took out
\* had its shutdown called, the one in the table was created after every
\* destroyed one, and a search call into the plugin runs on it.
C14_DisableThenEnable ==
    \A id \in Ids :
        ReEnabled(id) =>
            /\ LiveCount(id) = 1
            /\ \A e \in dropped :
                e.pid = id =>
                    /\ e.gen < instances[id].gen
                    /\ e.how = "unloaded" =>
                         e.shutdowns = (IF "shutdown" \in ModuleExports(e.module) THEN 1 ELSE 0)
            /\ instances[id].shutdowns = 0
            /\ "init" \in Exports(instances[id]) => instances[id].inits = 1
            /\ \A t \in Threads :
                (pc[t] = "cs_call" /\ loc[t].id = id) => instLock = t

\* The search issued after the third command, a disable and an enable of the
\* plugin having gone before, is in the guest of the plugin's new instance.
C14_Witness ==
    \E id \in Ids :
        /\ ReEnabled(id)
        /\ pc["t1"] = "cs_call" /\ loc["t1"].id = id
        /\ \A e \in dropped : e.pid = id => e.how = "unloaded"

\* C15: call_search on a loaded module without a search export returns an
\* empty list as a success, takes no lock for a guest call and calls nothing.
C15_MissingSearchIsEmpty ==
    [][\A t \in Threads :
        (pc[t] = "cs_lock" /\ Step(t) /\ instances[loc[t].id].alive
         /\ "search" \notin Exports(instances[loc[t].id]))
           => /\ pc'[t] = "ps_next"
              /\ loc'[t].last = "ok_empty"
              /\ loc'[t].called = loc[t].called
              /\ loc'[t].results = loc[t].results
              /\ instLock' = instLock
              /\ instances' = instances
      ]_vars

\* The provider holds the empty Ok of a loaded plugin whose module has no
\* search export, and has not called into it.
C15_Witness ==
    \E t \in CmdThreads :
        /\ pc[t] = "ps_next" /\ loc[t].last = "ok_empty" /\ loc[t].out = "none"
        /\ is_loaded(loc[t].id)
        /\ "search" \notin Exports(instances[loc[t].id])
        /\ loc[t].id \notin loc[t].called

\* C16: call_ai_tool on a loaded module without the execute_ai_tool export
\* returns an Err, never an Ok, calls nothing, and the instance stays loaded.
C16_MissingAiToolIsError ==
    [][\A t \in Threads :
        (pc[t] = "ai_lock" /\ Step(t) /\ instances[loc[t].id].alive
         /\ "execute_ai_tool" \notin Exports(instances[loc[t].id]))
           => /\ pc'[t] = "done"
              /\ ret'[t] = "err_no_export"
              /\ loc'[t].out = "none"
              /\ instLock' = instLock
              /\ instances' = instances
              /\ instances'[loc[t].id].alive
      ]_vars

\* execute_plugin_ai_tool has returned the Err for a plugin that is loaded
\* and whose module lacks the export.
C16_Witness ==
    \E t \in CmdThreads :
        /\ pc[t] = "done" /\ cmd[t] = "ai_tool" /\ ret[t] = "err_no_export"
        /\ is_loaded(loc[t].id)
        /\ "execute_ai_tool" \notin Exports(instances[loc[t].id])

\* The plugins the provider's loop calls into: loaded, catalogued, enabled,
\* and with a search export.
Eligible ==
    {id \in Ids : /\ is_loaded(id)
                  /\ Catalogued(id) /\ get_plugin(id).enabled
                  /\ "search" \in Exports(instances[id])}

\* C17: with commands issued one after the other, a search whose call into
\* one plugin traps or returns unparsable output adds nothing for that plugin,
\* keeps what the other plugins contributed, goes on with the plugins left,
\* and returns having called every loaded, enabled plugin with a search export.
C17_FailingPluginContributesNothing ==
    [][\A t \in Threads :
        /\ (pc[t] = "cs_call" /\ Step(t))
           => /\ pc'[t] = "ps_next"
              /\ loc'[t].pending = loc[t].pending
              /\ loc'[t].results =
                   (IF loc'[t].out = "ok" THEN loc[t].results \cup {loc[t].id}
                                          ELSE loc[t].results)
        /\ (pc[t] = "ps_next" /\ pc'[t] = "done")
           => /\ ret'[t] = "ok"
              /\ loc'[t].results = loc[t].results
              /\ loc'[t].results \subseteq loc'[t].called
              /\ loc'[t].called = Eligible
      ]_vars

\* A search has returned the results of p2 although the call into p1, which
\* it also made, contributed none.
C17_Witness ==
    \E t \in CmdThreads :
        /\ pc[t] = "done" /\ cmd[t] = "search" /\ ret[t] = "ok"
        /\ loc[t].called = {"p1", "p2"}
        /\ loc[t].results = {"p2"}

\* The result values that are an Err.
ErrorResults == {"err_parse", "err_call", "err_no_export", "err_not_loaded"}

\* C18 as claimed: a trap of the guest or a malformed JSON output of a typed
\* call (search, execute_ai_tool) reaches the caller as an Err, and the
\* instance table is unchanged.
C18_GuestFailureIsCallError ==
    [][\A t \in Threads :
        /\ (pc[t] = "cs_call" /\ Step(t) /\ loc'[t].out \in {"trap", "badjson"})
           => (loc'[t].last \in ErrorResults /\ instances' = instances)
        /\ (pc[t] = "ai_call" /\ Step(t) /\ loc'[t].out \in {"trap", "badjson"})
           => (ret'[t] \in ErrorResults /\ instances' = instances)
      ]_vars

\* C18 as amended: call_search turns a trap into an empty Ok and unparsable
\* output into an Err; call_ai_tool turns a trap into an Err and returns any
\* output string, well-formed or not, as Ok; the instance table is unchanged
\* by either.
C18_GuestFailureHandling ==
    [][\A t \in Threads :
        /\ (pc[t] = "cs_call" /\ Step(t))
           => /\ loc'[t].out = "trap" => loc'[t].last = "ok_empty"
              /\ loc'[t].out = "badjson" => loc'[t].last = "err_parse"
              /\ loc'[t].out = "ok" => loc'[t].last = "ok"
              /\ instances' = instances /\ dropped' = dropped
        /\ (pc[t] = "ai_call" /\ Step(t))
           => /\ loc'[t].out = "trap" => ret'[t] = "err_call"
              /\ loc'[t].out \in {"ok", "badjson"} => ret'[t] = "ok"
              /\ pc'[t] = "done"
              /\ instances' = instances /\ dropped' = dropped
      ]_vars

\* The guest's search has trapped and call_search has returned an empty Ok
\* for it; the plugin is still loaded.
C18_Witness ==
    \E t \in CmdThreads :
        /\ pc[t] = "ps_next" /\ loc[t].out = "trap" /\ loc[t].last = "ok_empty"
        /\ is_loaded(loc[t].id)

\* C19: load_plugin of a module that instantiates and has no init export
\* calls no init, stores the instance under the plugin id and returns Ok.
C19_MissingInitIsFine ==
    [][\A t \in Threads :
        /\ (pc[t] = "load_new" /\ Step(t) /\ pc'[t] = "load_insert"
            /\ "init" \notin ModuleExports(loc[t].snap.path))
           => /\ loc'[t].mine.alive
              /\ loc'[t].mine.inits = 0
              /\ ~loc'[t].mine.initFailed
        /\ (pc[t] = "load_insert" /\ Step(t) /\ "init" \notin ModuleExports(loc[t].snap.path))
           => /\ ret'[t] = "ok"
              /\ instances'[loc[t].id].alive
              /\ instances'[loc[t].id].module = loc[t].snap.path
              /\ instances'[loc[t].id].inits = 0
      ]_vars

\* enable_plugin has returned Ok and the plugin, whose module exports no
\* init, is loaded with no init call made.
C19_Witness ==
    \E t \in CmdThreads :
        /\ pc[t] = "done" /\ cmd[t] = "enable" /\ ret[t] = "ok"
        /\ is_loaded(loc[t].id)
        /\ "init" \notin Exports(instances[loc[t].id])
        /\ instances[loc[t].id].inits = 0
        /\ instances[loc[t].id].gen > 1

\* How many times the id stands in the list.
Occurrences(ids, id) == Cardinality({k \in 1..Len(ids) : ids[k] = id})

\* C20: a plugin id is reported once by the scan of the plugins root and
\* instantiated once by the loading thread, also when two directories carry
\* manifests with that id.
C20_IdReportedAndLoadedOnce ==
    /\ \A id \in Ids : Occurrences(loc[Startup].found, id) <= 1
    /\ ncmds = 0 =>
        /\ dropped = {}
        /\ \A id \in Ids : instances[id].gen <= 1

\* The loading thread's scan is over and no command has run since.
ScanDone == pc[Startup] \notin {"scan_begin", "scan_entry"} /\ ncmds = 0

Candidates(id) == {d \in disk : DirValid(d) /\ ManifestId(d) = id}

C22_UninstallRemovesOneEntry ==
    [][\A t \in CmdThreads :
        Returns(t, {"uninstall"}) =>
            LET id == loc'[t].id IN
            /\ \A other \in Ids \ {id} : plugins'[other] = plugins[other]
            /\ IF plugins[id] # Absent
               THEN /\ plugins'[id] = Absent
                    /\ ret'[t] \in {"ok", "err_io"}
                    /\ ret'[t] = "ok" => disk' = disk \ {plugins[id].path}
                    /\ ret'[t] = "err_io" => disk' = disk
               ELSE /\ ret'[t] = "err_not_found"
                    /\ plugins' = plugins
                    /\ disk' = disk]_vars

\* uninstall("p2") has returned success: p2 has no catalog entry, its
\* directory is gone, and p1 is still catalogued with its directory on disk.
C22_Witness ==
    \E t \in CmdThreads :
        /\ pc[t] = "done" /\ cmd[t] = "uninstall" /\ ret[t] = "ok"
        /\ loc[t].id = "p2"
        /\ plugins["p2"] = Absent /\ "d2" \notin disk
        /\ plugins["p1"] # Absent /\ plugins["p1"].path \in disk

\* No command is in flight and the loading thread has finished.
Quiescent ==
    /\ pc[Startup] = "finished"
    /\ \A t \in CmdThreads : pc[t] \in {"idle", "done"}

\* The command registry's entries whose source is the plugin id.
CommandsOf(id) == {e \in registry : e[1] = id}

\* C23: whenever no command is in flight, the registry holds an entry for
\* every command trigger of the manifest of each loaded plugin, and no entry
\* whose source is a plugin that has no live instance.
C23_CommandsFollowLifecycle ==
    Quiescent =>
        \A id \in Ids :
            IF instances[id].alive
            THEN \A trigger \in ManifestCommands(instances[id].module) :
                    <<id, trigger>> \in registry
            ELSE CommandsOf(id) = {}

\* C24: a search with an empty query returns without calling any plugin. A
\* search with a non-empty query takes the ids of the loaded plugins once,
\* visits each of them exactly once, and calls call_search for the visited id
\* exactly when the catalog holds it with enabled = true; while call_search
\* runs the ids left to visit do not change, and the provider returns only
\* when none is left.
C24_SearchCallsLoadedAndEnabled ==
    [][\A t \in CmdThreads :
        /\ (pc[t] = "idle" /\ pc'[t] = "done" /\ cmd'[t] = "search") =>
                /\ loc'[t].called = {}
                /\ instances' = instances
        /\ (pc[t] = "ps_ids" /\ Step(t)) =>
                loc'[t].pending = {id \in Ids : instances[id].alive}
        /\ (pc[t] = "ps_next" /\ loc'[t].pending # loc[t].pending) =>
                \E id \in loc[t].pending :
                    /\ loc'[t].pending = loc[t].pending \ {id}
                    /\ loc'[t].id = id
                    /\ pc'[t] = "cs_lock" <=>
                            (plugins[id] # Absent /\ plugins[id].enabled)
                    /\ pc'[t] \in {"cs_lock", "ps_next"}
        /\ (pc[t] \in {"cs_lock", "cs_call"} /\ Step(t)) =>
                /\ loc'[t].pending = loc[t].pending
                /\ pc'[t] \in {"cs_call", "ps_next"}
        /\ (pc[t] = "ps_next" /\ Returns(t, {"search"})) =>
                loc[t].pending = {}]_vars

\* A search has returned having called p2, and only p2, while p1 has a live
\* instance and no catalog entry.
C24_Witness ==
    \E t \in CmdThreads :
        /\ pc[t] = "done" /\ cmd[t] = "search" /\ ret[t] = "ok"
        /\ loc[t].called = {"p2"}
        /\ instances["p1"].alive /\ plugins["p1"] = Absent
        /\ instances["p2"].alive /\ plugins["p2"].enabled

\* C25: a read_file or write_file call that has passed its permission check
\* never returns the not-registered error, whatever register and unregister
\* calls run between the check and the path resolution.
C25_InFlightCallsFinish ==
    [][\A h \in HThreads :
        (hpc[h] = "resolve" /\ HostStep(h)) => hret'[h] # "NotRegistered"]_vars

\* A call of the host's config, HTTP or OAuth functions of the given name
\* is made in this step.
SvcStep(op) == svc'.n # svc.n /\ svc'.op = op

\* C26: set_config succeeds for every plugin id, registered or not and
\* whatever its permission flags, leaves the permission table and the other
\* plugins' config files alone, and stores a file that parses back to the
\* config it was given; get_config never fails and changes nothing: it
\* returns the default when the file is missing or does not parse, and the
\* config of the set_config that came just before it for the same id.
C26_ConfigRoundTrip ==
    [][/\ SvcStep("set_config") =>
            /\ svc'.res = "ok"
            /\ perms' = perms
            /\ get_config_path(svc'.id) \in DOMAIN cfgFiles'
            /\ from_str(cfgFiles'[get_config_path(svc'.id)]) =
                    [ok |-> TRUE, config |-> svc'.config]
            /\ \A f \in DOMAIN cfgFiles \ {get_config_path(svc'.id)} :
                    f \in DOMAIN cfgFiles' /\ cfgFiles'[f] = cfgFiles[f]
       /\ SvcStep("get_config") =>
            /\ svc'.res = "ok"
            /\ cfgFiles' = cfgFiles /\ perms' = perms
            /\ (\/ get_config_path(svc'.id) \notin DOMAIN cfgFiles
                \/ ~from_str(cfgFiles[get_config_path(svc'.id)]).ok)
                    => svc'.config = DefaultConfig
            /\ (svc.op = "set_config" /\ svc.id = svc'.id)
                    => svc'.config = svc.config]_vars

\* get_config has returned a config of two members for p2, which is not
\* registered and whose config file did not parse when the process started.
C26_Witness ==
    /\ svc.op = "get_config" /\ svc.id = "p2" /\ svc.res = "ok"
    /\ Cardinality(svc.config) = 2
    /\ ~perms["p2"].registered

\* C28: get_oauth_token returns a permission error when the plugin's
\* manifest does not declare OAuth(provider); when it does, it returns the
\* token get_token_if_valid yields for the provider, an error when it yields
\* none.
C28_OAuthGatedAndProxied ==
    [][SvcStep("get_oauth_token") =>
        svc'.res =
            IF <<"oauth", svc'.arg>> \notin ManifestPermissions(svc'.id)
            THEN "PermissionDenied"
            ELSE IF svc'.env = "none" THEN "err_no_token"
            ELSE svc'.env]_vars

\* C30: http_request never consults the permission table: whether or not the
\* plugin is registered or declares Network, the outcome is that of the
\* method and of the network alone, and the table is left as it was.
C30_HttpNotGated ==
    [][SvcStep("http_request") =>
        /\ perms' = perms
        /\ svc'.res =
             IF to_uppercase(svc'.arg) \notin {"GET", "POST", "PUT", "DELETE", "PATCH"}
             THEN "err_method"
             ELSE CASE svc'.env = "send_err" -> "err_request"
                    [] svc'.env = "body_err" -> "err_body"
                    [] svc'.env = "reply" -> "ok"]_vars

\* An http_request made for p1, which is not registered and does not declare
\* Network, has returned the response.
C30_Witness ==
    /\ svc.op = "http_request" /\ svc.id = "p1" /\ svc.res = "ok"
    /\ svc.arg = "post"
    /\ ~perms["p1"].registered
    /\ <<"network">> \notin ManifestPermissions("p1")

\* The path lies strictly below the data directory of the plugin.
UnderDataDir(q, id) == InDataDir(q, id) /\ q # get_plugin_data_dir(id)

\* C27: a read_file or write_file call made on behalf of one plugin reads,
\* writes or creates nothing below the data directory of another plugin.
C27_NoCrossPluginAccess ==
    \A h \in HThreads : \A id \in Ids \ {hloc[h].id} :
        \A q \in hloc[h].made \cup hloc[h].hit : ~UnderDataDir(q, id)

\* C29: a registered plugin's sandbox has can_read only if its manifest
\* declares filesystem:read and can_write only if it declares
\* filesystem:write, and no step turns a flag of a plugin that stays
\* registered from false to true.
C29_NoEscalation ==
    [][\A id \in Ids :
        perms'[id].registered =>
            /\ perms'[id].can_read => <<"filesystem", "read">> \in ManifestPermissions(id)
            /\ perms'[id].can_write => <<"filesystem", "write">> \in ManifestPermissions(id)
            /\ perms[id].registered =>
                /\ perms'[id].can_read => perms[id].can_read
                /\ perms'[id].can_write => perms[id].can_write]_vars

\* C31: a manifest whose permissions array holds only the documented
\* strings (network, filesystem:read, filesystem:write, clipboard,
\* notifications, oauth:<provider>) parses, each string giving the
\* corresponding permission, oauth:<provider> giving OAuth(provider).
C31_LiteralPermissionsParse ==
    LET Documented(j) ==
            CASE j = JString("network")          -> <<"network">>
              [] j = JString("filesystem:read")  -> <<"filesystem", "read">>
              [] j = JString("filesystem:write") -> <<"filesystem", "write">>
              [] j = JString("clipboard")        -> <<"clipboard">>
              [] j = JString("notifications")    -> <<"notifications">>
              [] j = JString("oauth:github")     -> <<"oauth", "github">>
              [] OTHER                           -> Invalid
    IN  (/\ mf.op = "from_file"
         /\ \A i \in DOMAIN mf.doc.permissions : Documented(mf.doc.permissions[i]) # Invalid)
        => /\ mf.ok
           /\ mf.value.permissions =
                [i \in DOMAIN mf.doc.permissions |-> Documented(mf.doc.permissions[i])]

\* C32: a manifest serialised and parsed back is accepted and has the same
\* permissions and the same provides listing.
C32_ManifestRoundTrip ==
    [][(mf.op = "to_string" /\ mf'.op = "from_file" /\ mf'.doc = mf.doc) =>
        /\ mf'.ok
        /\ mf'.value.permissions = mf.value.permissions
        /\ mf'.value.providers = mf.value.providers
        /\ mf'.value.commands = mf.value.commands]_vars

\* A manifest with an OAuth permission, a provider and a command without an
\* icon has been written and parsed back.
C32_Witness ==
    /\ mf.op = "from_file" /\ mf.ok
    /\ mf.value.permissions = << <<"oauth", "github">>, <<"network">> >>
    /\ mf.value.providers = <<"search">>
    /\ Len(mf.value.commands) = 1 /\ ~mf.value.commands[1].icon.some

\* C33: the loader's enable / disable, the first step of the enable_plugin
\* and disable_plugin commands, on a catalogued id sets the enabled flag of
\* that entry to true / false and leaves the entry's directory, every other
\* entry, the instance table and the disk as they were; on an unknown id it
\* fails and the catalog is unchanged.
C33_EnableDisableChangeOnlyTheFlag ==
    [][\A t \in CmdThreads :
        (pc[t] = "idle" /\ Step(t) /\ cmd'[t] \in {"enable", "disable"}) =>
            LET id == loc'[t].id IN
            /\ instances' = instances /\ dropped' = dropped /\ disk' = disk
            /\ \A other \in Ids \ {id} : plugins'[other] = plugins[other]
            /\ IF plugins[id] # Absent
               THEN /\ plugins'[id] = [path |-> plugins[id].path,
                                       enabled |-> (cmd'[t] = "enable")]
                    /\ pc'[t] # "done"
               ELSE /\ plugins' = plugins
                    /\ pc'[t] = "done" /\ ret'[t] = "err_not_found"]_vars

\* disable_plugin("p1") has done its loader step: p1's flag is false, its
\* instance is still in the table, and p2 is still enabled.
C33_Witness ==
    \E t \in CmdThreads :
        /\ pc[t] = "unload_lock" /\ cmd[t] = "disable" /\ loc[t].id = "p1"
        /\ plugins["p1"].path = "d1" /\ ~plugins["p1"].enabled
        /\ instances["p1"].alive
        /\ plugins["p2"].enabled

\* C34: a step of call_search or call_ai_tool leaves the instance table as
\* it was, whether the guest call succeeds or fails; a typed call for an id
\* without an instance returns the not-loaded error, creates no instance and
\* calls no guest.
C34_TypedCallsKeepTheTable ==
    [][\A t \in CmdThreads :
        (pc[t] \in {"cs_lock", "cs_call", "ai_lock", "ai_call"} /\ Step(t)) =>
            /\ instances' = instances
            /\ dropped' = dropped
            /\ (pc[t] = "cs_lock" /\ ~instances[loc[t].id].alive) =>
                    /\ loc'[t].last = "err_not_loaded"
                    /\ loc'[t].called = loc[t].called
                    /\ pc'[t] = "ps_next"
            /\ (pc[t] = "ai_lock" /\ ~instances[loc[t].id].alive) =>
                    /\ ret'[t] = "err_not_loaded"
                    /\ pc'[t] = "done"]_vars

\* A search's call_search found no instance for the plugin it was visiting
\* (the plugin was unloaded after the provider took its snapshot), and the
\* plugin still has none.
C34_Witness ==
    \E t \in CmdThreads :
        /\ cmd[t] = "search" /\ pc[t] = "ps_next"
        /\ loc[t].last = "err_not_loaded"
        /\ ~instances[loc[t].id].alive

\* C35: the enabled flag of a plugin that stays catalogued changes only in
\* the loader step of an enable_plugin or disable_plugin command for that
\* plugin; in particular the rescan of an install leaves it as it was.
C35_FlagChangesOnlyByEnableDisable ==
    [][\A id \in Ids :
        (/\ plugins[id] # Absent /\ plugins'[id] # Absent
         /\ plugins'[id].enabled # plugins[id].enabled) =>
            \E t \in CmdThreads :
                /\ pc[t] = "idle" /\ cmd'[t] \in {"enable", "disable"}
                /\ loc'[t].id = id]_vars

\* C36: whenever no command is in flight, every plugin with a live instance
\* that is in the catalog is enabled there, whatever the interleaving of the
\* loading thread with the enable_plugin and disable_plugin commands.
C36_LoadedImpliesEnabled ==
    Quiescent =>
        \A id \in Ids :
            (instances[id].alive /\ plugins[id] # Absent) => plugins[id].enabled

\* C37: with commands issued one after the other, an export of a plugin's
\* guest module (search or execute_ai_tool) is invoked only while the plugin
\* is in the catalog and enabled there: not after disable_plugin or
\* uninstall_plugin has returned for it.
C37_NoGuestCodeOfRemovedPlugin ==
    [][\A t \in CmdThreads :
        (Step(t) /\ pc'[t] \in {"cs_call", "ai_call"}) =>
            /\ plugins[loc[t].id] # Absent
            /\ plugins[loc[t].id].enabled]_vars

\* C38: no step of a read_file call, whether the call succeeds or fails,
\* creates a directory or changes a file.
C38_ReadFileModifiesNothing ==
    [][\A h \in HThreads :
        (hloc'[h].op = "read" /\ HostStep(h)) =>
            fsDirs' = fsDirs /\ fsFiles' = fsFiles]_vars

\* C39: an uninstall that returns an error, for an unknown id or because
\* the directory could not be deleted, leaves the catalog as it was before
\* the call.
C39_UninstallAtomicOnError ==
    [][\A t \in CmdThreads :
        (Returns(t, {"uninstall"}) /\ ret'[t] # "ok") => plugins' = plugins]_vars

====
